---- MODULE Spec2Model ----
(***************************************************************************)
(* The concurrent crawl engine of gocrawler: the buffered job channel, the *)
(* worker goroutines, the visited map, the token-bucket rate limiter, the  *)
(* monitor goroutine that closes the job channel, Crawl itself and the     *)
(* construction of the crawler from main's flags.                          *)
(***************************************************************************)
EXTENDS Integers, Sequences, FiniteSets, TLC

\* ------------------------------------------------------------------ bounds
\* Number of worker goroutines (flag -workers, default 10).
NumWorkers == 2
\* Maximum crawl depth (flag -depth, default 2).
MaxDepth == 2
\* Requests per second (flag -rate, default 10): the capacity of rl.tokens.
Rate == 1
\* Buffer size of the jobs channel (100 in Crawl), scaled down so that a full
\* buffer is reached by the pages of Site.
QueueCapacity == 2
\* Number of calls of Crawl on one crawler.
MaxRuns == 2

Workers == 1..NumWorkers

\* ------------------------------------------------------------- URL strings
\* A string holding a URL is a sequence of lexical pieces <<kind, text>>, e.g.
\* "http://ex.test/a#x" is <<scheme http, host ex.test, path /a, frag x>>.
Tok(kind, text) == <<kind, text>>
Str(scheme, host, path, frag) ==
    (IF scheme = "" THEN <<>> ELSE <<Tok("scheme", scheme)>>) \o
    (IF host = "" THEN <<>> ELSE <<Tok("host", host)>>) \o
    (IF path = "" THEN <<>> ELSE <<Tok("path", path)>>) \o
    (IF frag = "" THEN <<>> ELSE <<Tok("frag", frag)>>)

NoURL == [ok |-> FALSE, Scheme |-> "", Opaque |-> "", Host |-> "", Path |-> "", Fragment |-> ""]

\* Rank of a piece in a well-formed URL string: scheme, authority, path (or
\* opaque part), fragment, in that order and each at most once.
KindRank(kind) ==
    CASE kind = "scheme" -> 1
      [] kind = "host" -> 2
      [] kind = "path" -> 3
      [] kind = "opaque" -> 3
      [] kind = "frag" -> 4
      [] OTHER -> 0

WellFormed(s) ==
    /\ \A i \in 1..Len(s) : KindRank(s[i][1]) > 0
    /\ \A i \in 1..Len(s) : \A j \in 1..Len(s) :
          i < j => KindRank(s[i][1]) < KindRank(s[j][1])
    /\ \A i \in 1..Len(s) : s[i][1] = "opaque" =>
          /\ \E j \in 1..Len(s) : s[j][1] = "scheme"
          /\ \A j \in 1..Len(s) : s[j][1] # "host"

Part(s, kind) ==
    IF \E i \in 1..Len(s) : s[i][1] = kind
    THEN s[CHOOSE i \in 1..Len(s) : s[i][1] = kind][2]
    ELSE ""

\* url.Parse: the components of a URL string, or an error (ok = FALSE).
Parse(s) ==
    IF ~WellFormed(s) THEN NoURL
    ELSE [ok |-> TRUE, Scheme |-> Part(s, "scheme"), Opaque |-> Part(s, "opaque"),
          Host |-> Part(s, "host"), Path |-> Part(s, "path"),
          Fragment |-> Part(s, "frag")]

\* (*URL).String: scheme, then the opaque part or authority and path, then
\* the fragment.
String(u) ==
    (IF u.Scheme = "" THEN <<>> ELSE <<Tok("scheme", u.Scheme)>>) \o
    (IF u.Opaque # "" THEN <<Tok("opaque", u.Opaque)>>
     ELSE (IF u.Host = "" THEN <<>> ELSE <<Tok("host", u.Host)>>) \o
          (IF u.Path = "" THEN <<>> ELSE <<Tok("path", u.Path)>>)) \o
    (IF u.Fragment = "" THEN <<>> ELSE <<Tok("frag", u.Fragment)>>)

\* (*URL).ResolveReference (RFC 3986 section 5.2) for references whose path,
\* when present, is absolute.
ResolveReference(base, ref) ==
    IF ref.Scheme # "" \/ ref.Host # ""
    THEN [ref EXCEPT !.Scheme = IF ref.Scheme = "" THEN base.Scheme ELSE ref.Scheme]
    ELSE IF ref.Path = ""
    THEN [base EXCEPT !.Fragment = IF ref.Fragment = "" THEN base.Fragment
                                   ELSE ref.Fragment]
    ELSE [base EXCEPT !.Path = ref.Path, !.Fragment = ref.Fragment]

\* Crawler.resolveURL: "" (the empty string) when href does not parse.
resolveURL(base, href) ==
    IF ~Parse(href).ok THEN <<>> ELSE String(ResolveReference(base, Parse(href)))

\* shouldCrawl with the host comparison left out.
shouldCrawlAnyHost(targetURL, baseURL) ==
    LET target == Parse(targetURL) IN
    /\ target.ok
    /\ target.Scheme \in {"http", "https"}

\* Crawler.shouldCrawl: same host as the referring page, scheme http or https.
shouldCrawl(targetURL, baseURL) ==
    LET target == Parse(targetURL) IN
    /\ target.ok
    /\ target.Host = baseURL.Host
    /\ target.Scheme \in {"http", "https"}

\* ------------------------------------------------------------------ parser
\* The href filter of parser.Parse: not empty, no "#" prefix, no
\* "javascript:" prefix.
KeepHref(href) ==
    /\ href # <<>>
    /\ Head(href)[1] # "frag"
    /\ Head(href) # Tok("scheme", "javascript")

RECURSIVE FilterHrefs(_)
FilterHrefs(hrefs) ==
    IF hrefs = <<>> THEN <<>>
    ELSE IF KeepHref(Head(hrefs)) THEN <<Head(hrefs)>> \o FilterHrefs(Tail(hrefs))
    ELSE FilterHrefs(Tail(hrefs))

\* The loop of parser.uniqueStrings: result holds the strings kept so far
\* (seen[item] is true exactly for them).
RECURSIVE UniqueInto(_, _)
UniqueInto(result, slice) ==
    IF slice = <<>> THEN result
    ELSE IF \E i \in 1..Len(result) : result[i] = Head(slice)
    THEN UniqueInto(result, Tail(slice))
    ELSE UniqueInto(Append(result, Head(slice)), Tail(slice))

\* parser.uniqueStrings: keeps the first occurrence of every string.
uniqueStrings(slice) == UniqueInto(<<>>, slice)

\* parser.Parse, the Links of the page: the kept hrefs, duplicates removed.
ParseLinks(hrefs) == uniqueStrings(FilterHrefs(hrefs))

\* -------------------------------------------------------------------- site
\* The URL Crawl is started with.
Seed == Str("http", "ex.test", "/", "")
\* Another start URL of the same site: its page links to /u directly and
\* through /t.
ShortcutSeed == Str("http", "ex.test", "/s", "")

\* The remote site: the href attributes of the anchors of the page served for
\* a path of ex.test, in document order.
SiteHrefs(path) ==
    CASE path = "/" -> << Str("", "", "/a", ""), Str("http", "other.test", "/x", ""),
                          Str("", "", "", "frag"),
                          <<Tok("scheme", "javascript"), Tok("opaque", "void(0)")>> >>
      [] path = "/a" -> << Str("", "", "/b", "x"), Str("", "", "/b", "y"),
                           Str("http", "ex.test", "/b", "x") >>
      [] path = "/b" -> << <<Tok("bad", "%zz")>>, Str("", "", "/a", "") >>
      [] path = "/s" -> << Str("", "", "/t", ""), Str("", "", "/u", ""),
                           Str("", "", "/w", "") >>
      [] path = "/t" -> << Str("", "", "/u", "") >>
      [] path = "/u" -> << Str("", "", "/v", "") >>
      [] OTHER -> <<>>

\* What client.Get(url) asks the site for: the fragment is not sent.
Site(url) == SiteHrefs(Parse(url).Path)

\* The child URLs a worker sends for the page at url, in the order of its
\* loop over pageInfo.Links: the links that resolve (childURL != "") and that
\* shouldCrawl accepts.
RECURSIVE ChildURLs(_, _)
ChildURLs(baseURL, pageLinks) ==
    IF pageLinks = <<>> THEN <<>>
    ELSE LET childURL == resolveURL(baseURL, Head(pageLinks))
             rest == ChildURLs(baseURL, Tail(pageLinks))
         IN IF childURL # <<>> /\ shouldCrawl(childURL, baseURL)
            THEN <<childURL>> \o rest
            ELSE rest

Children(url) == ChildURLs(Parse(url), ParseLinks(Site(url)))

\* The URL strings a job can carry, and the children of each (Children is a
\* function of the URL alone).
JobURLs ==
    {Str("http", h, p, f) : h \in {"ex.test", "other.test"},
                            p \in {"", "/", "/a", "/b", "/x"},
                            f \in {"", "frag", "x", "y"}}
    \cup {Str("http", "ex.test", p, "") : p \in {"/s", "/t", "/u", "/v", "/w"}}
ChildrenOf == [url \in JobURLs |-> Children(url)]

\* ------------------------------------------------------------------- state
VARIABLES
    jobs,         \* the buffered jobs channel: the Jobs in its buffer, oldest first
    closed,       \* close(jobs) has run
    ctxDone,      \* ctx.Done() is closed (cancel() was called)
    visited,      \* c.visited: the set of keys mapped to true
    tokens,       \* number of elements buffered in rl.tokens
    pc,           \* where each worker goroutine is
    job,          \* the Job each worker is processing (NoJob between jobs)
    links,        \* the child URLs of the page each worker has still to send
    pages,        \* c.results.pages
    mon,          \* the monitor goroutine: pc, prevVisited, stableCount (the
                  \* locals are zero before it starts and after it has returned)
    cpc,          \* where Crawl is
    panicked,     \* a goroutine panicked: the process is gone
    dropped,      \* history: a link was skipped because the buffer was full
    claims,       \* history: number of calls of c.markVisited
    durationCalls,
                  \* number of calls of c.results.SetDuration
    cfg,          \* main's flags: the arguments workers, rateLimit, maxDepth of
                  \* crawler.New and the startURL of Crawl
    limiter,      \* the RateLimiter: ticker.Stop() was called (stopped), the
                  \* refill goroutine has a tick of ticker.C to handle (tick),
                  \* close(rl.tokens) has run (closed)
    recent        \* history: the fetch attempts started in each of the last
                  \* Rate refill intervals of the uncancelled run, the
                  \* current interval last

vars == <<jobs, closed, ctxDone, visited, tokens, pc, job, links, pages, mon,
          cpc, panicked, dropped, claims, durationCalls, cfg, limiter, recent>>

NoJob == [URL |-> <<>>, Depth |-> 0]
\* stableCount the monitor stops at.
StableLimit == 3

\* The RateLimiter NewRateLimiter returns: ticker running, channel open.
NewLimiter == [stopped |-> FALSE, tick |-> FALSE, closed |-> FALSE]

\* A window of n refill intervals without a fetch attempt.
NoAttempts(n) == [i \in 1..n |-> 0]

\* State after crawler.New: empty visited map, full token bucket, ticker armed.
Init ==
    /\ jobs = <<>>
    /\ closed = FALSE
    /\ ctxDone = FALSE
    /\ visited = {}
    /\ tokens = Rate
    /\ pc = [w \in Workers |-> "off"]
    /\ job = [w \in Workers |-> NoJob]
    /\ links = [w \in Workers |-> <<>>]
    /\ pages = <<>>
    /\ mon = [pc |-> "off", prevVisited |-> 0, stableCount |-> 0]
    /\ cpc = "idle"
    /\ panicked = FALSE
    /\ dropped = FALSE
    /\ claims = 0
    /\ durationCalls = 0
    /\ cfg = [workers |-> NumWorkers, rateLimit |-> Rate, maxDepth |-> MaxDepth,
              startURL |-> Seed]
    /\ limiter = NewLimiter
    /\ recent = NoAttempts(Rate)

\* ------------------------------------------------------------ rate limiter
\* A refill that sends without looking at the capacity.
RefillTokensUncapped(n) == n + 1

\* Number of tokens after the refill goroutine's select.
RefillTokens(n) == IF n < cfg.rateLimit THEN n + 1 ELSE n

\* The refill goroutine takes a tick from rl.ticker.C and does its
\* non-blocking send: with the bucket full the state is left as it is. The
\* goroutine is started by NewRateLimiter.
Refill ==
    /\ ~panicked
    /\ cpc # "new"
    /\ tokens' = RefillTokens(tokens)
    /\ recent' = IF ctxDone THEN recent ELSE Append(Tail(recent), 0)
    /\ UNCHANGED <<jobs, closed, ctxDone, visited, pc, job, links, pages, mon,
                   cpc, panicked, dropped, claims, durationCalls, cfg,
                   limiter>>

\* The window after a fetch attempt has started in the current interval.
Attempted == IF ctxDone THEN recent ELSE [recent EXCEPT ![Len(recent)] = @ + 1]

\* A Wait that returns although the bucket is empty.
WaitTokenFree(w) ==
    /\ ~panicked
    /\ pc[w] = "wait"
    /\ tokens' = IF tokens > 0 THEN tokens - 1 ELSE 0
    /\ pc' = [pc EXCEPT ![w] = "fetch"]
    /\ recent' = Attempted
    /\ UNCHANGED <<jobs, closed, ctxDone, visited, job, links, pages, mon,
                   cpc, panicked, dropped, claims, durationCalls, cfg,
                   limiter>>

\* A Wait that looks at the bucket and leaves the token in it.
WaitTokenKeep(w) ==
    /\ ~panicked
    /\ pc[w] = "wait"
    /\ tokens > 0
    /\ pc' = [pc EXCEPT ![w] = "fetch"]
    /\ recent' = Attempted
    /\ UNCHANGED <<jobs, closed, ctxDone, visited, tokens, job, links, pages,
                   mon, cpc, panicked, dropped, claims, durationCalls, cfg,
                   limiter>>

\* RateLimiter.Wait, case <-rl.tokens.
WaitToken(w) ==
    /\ ~panicked
    /\ pc[w] = "wait"
    /\ tokens > 0
    /\ tokens' = tokens - 1
    /\ pc' = [pc EXCEPT ![w] = "fetch"]
    /\ recent' = Attempted
    /\ UNCHANGED <<jobs, closed, ctxDone, visited, job, links, pages, mon,
                   cpc, panicked, dropped, claims, durationCalls, cfg,
                   limiter>>

\* RateLimiter.Wait, case <-ctx.Done().
WaitCancelled(w) ==
    /\ ~panicked
    /\ pc[w] = "wait"
    /\ ctxDone
    /\ pc' = [pc EXCEPT ![w] = "fetch"]
    /\ UNCHANGED <<jobs, closed, ctxDone, visited, tokens, job, links, pages,
                   mon, cpc, panicked, dropped, claims, durationCalls, cfg,
                   recent, limiter>>

\* ------------------------------------------------------------------ worker
\* Top of the worker loop, case <-ctx.Done().
WorkerCancelled(w) ==
    /\ ~panicked
    /\ pc[w] = "select"
    /\ ctxDone
    /\ pc' = [pc EXCEPT ![w] = "exited"]
    /\ job' = [job EXCEPT ![w] = NoJob]
    /\ links' = [links EXCEPT ![w] = <<>>]
    /\ UNCHANGED <<jobs, closed, ctxDone, visited, tokens, pages, mon, cpc,
                   panicked, dropped, claims, durationCalls, cfg, recent,
                   limiter>>

\* Top of the worker loop, case job, ok := <-jobs with ok true.
WorkerRecv(w) ==
    /\ ~panicked
    /\ pc[w] = "select"
    /\ jobs # <<>>
    /\ job' = [job EXCEPT ![w] = Head(jobs)]
    /\ jobs' = Tail(jobs)
    /\ pc' = [pc EXCEPT ![w] = "check"]
    /\ UNCHANGED <<closed, ctxDone, visited, tokens, links, pages, mon, cpc,
                   panicked, dropped, claims, durationCalls, cfg, recent,
                   limiter>>

\* A worker that returns as soon as the channel is closed.
WorkerClosedEarly(w) ==
    /\ ~panicked
    /\ pc[w] = "select"
    /\ closed
    /\ pc' = [pc EXCEPT ![w] = "exited"]
    /\ UNCHANGED <<jobs, closed, ctxDone, visited, tokens, job, links, pages,
                   mon, cpc, panicked, dropped, claims, durationCalls, cfg,
                   recent, limiter>>

\* Top of the worker loop, the receive from the closed and drained channel.
WorkerClosed(w) ==
    /\ ~panicked
    /\ pc[w] = "select"
    /\ jobs = <<>>
    /\ closed
    /\ pc' = [pc EXCEPT ![w] = "exited"]
    /\ UNCHANGED <<jobs, closed, ctxDone, visited, tokens, job, links, pages,
                   mon, cpc, panicked, dropped, claims, durationCalls, cfg,
                   recent, limiter>>

\* Crawler.isVisited.
isVisited(url) == url \in visited

\* markVisited with the insertion forgotten.
markVisitedNoInsert(url) == visited

\* Crawler.markVisited: the map after the call.
markVisited(url) == visited \cup {url}

\* if c.isVisited(job.URL) { continue }
WorkerCheck(w) ==
    /\ ~panicked
    /\ pc[w] = "check"
    /\ IF isVisited(job[w].URL)
       THEN /\ pc' = [pc EXCEPT ![w] = "select"]
            /\ job' = [job EXCEPT ![w] = NoJob]
       ELSE /\ pc' = [pc EXCEPT ![w] = "mark"]
            /\ job' = job
    /\ UNCHANGED <<jobs, closed, ctxDone, visited, tokens, links, pages, mon,
                   cpc, panicked, dropped, claims, durationCalls, cfg,
                   recent, limiter>>

\* c.markVisited(job.URL)
WorkerMark(w) ==
    /\ ~panicked
    /\ pc[w] = "mark"
    /\ visited' = markVisited(job[w].URL)
    /\ claims' = claims + 1
    /\ pc' = [pc EXCEPT ![w] = "wait"]
    /\ UNCHANGED <<jobs, closed, ctxDone, tokens, job, links, pages, mon, cpc,
                   panicked, dropped, durationCalls, cfg, recent, limiter>>

\* Results.AddPage: the pages after the append.
AddPage(url, success) == Append(pages, [URL |-> url, Success |-> success])

\* The depth test written with <= instead of <.
DepthAllowsInclusive(j) == j.Depth <= MaxDepth

\* Whether the worker ranges over the links of the page of job j.
DepthAllows(j) == j.Depth < cfg.maxDepth

\* A failed fetch that ends the worker.
FetchFailExits(w) ==
    /\ ~panicked
    /\ pc[w] = "fetch"
    /\ pages' = AddPage(job[w].URL, FALSE)
    /\ pc' = [pc EXCEPT ![w] = "exited"]
    /\ job' = [job EXCEPT ![w] = NoJob]
    /\ UNCHANGED <<jobs, closed, ctxDone, visited, tokens, links, mon, cpc,
                   panicked, dropped, claims, durationCalls, cfg, recent,
                   limiter>>

\* A failed fetch that records nothing.
FetchFailSilent(w) ==
    /\ ~panicked
    /\ pc[w] = "fetch"
    /\ pages' = pages
    /\ pc' = [pc EXCEPT ![w] = "select"]
    /\ job' = [job EXCEPT ![w] = NoJob]
    /\ UNCHANGED <<jobs, closed, ctxDone, visited, tokens, links, mon, cpc,
                   panicked, dropped, claims, durationCalls, cfg, recent,
                   limiter>>

\* client.Get and parser.Parse fail (error, status other than 200): the
\* failure is recorded and the worker continues with the next job.
FetchFail(w) ==
    /\ ~panicked
    /\ pc[w] = "fetch"
    /\ pages' = AddPage(job[w].URL, FALSE)
    /\ pc' = [pc EXCEPT ![w] = "select"]
    /\ job' = [job EXCEPT ![w] = NoJob]
    /\ UNCHANGED <<jobs, closed, ctxDone, visited, tokens, links, mon, cpc,
                   panicked, dropped, claims, durationCalls, cfg, recent,
                   limiter>>

\* client.Get and parser.Parse succeed: the page is recorded and, if the depth
\* allows, the worker ranges over its links up to the first one it sends.
FetchOK(w) ==
    /\ ~panicked
    /\ pc[w] = "fetch"
    /\ pages' = AddPage(job[w].URL, TRUE)
    /\ LET found == ChildrenOf[job[w].URL] IN
       IF DepthAllows(job[w]) /\ found # <<>>
       THEN /\ links' = [links EXCEPT ![w] = found]
            /\ pc' = [pc EXCEPT ![w] = "enqueue"]
            /\ job' = job
       ELSE /\ links' = links
            /\ pc' = [pc EXCEPT ![w] = "select"]
            /\ job' = [job EXCEPT ![w] = NoJob]
    /\ UNCHANGED <<jobs, closed, ctxDone, visited, tokens, mon, cpc, panicked,
                   dropped, claims, durationCalls, cfg, recent, limiter>>

\* The loop over pageInfo.Links moves on to the next link it sends, or ends.
NextLink(w) ==
    IF Len(links[w]) > 1
    THEN /\ links' = [links EXCEPT ![w] = Tail(links[w])]
         /\ pc' = pc
         /\ job' = job
    ELSE /\ links' = [links EXCEPT ![w] = <<>>]
         /\ pc' = [pc EXCEPT ![w] = "select"]
         /\ job' = [job EXCEPT ![w] = NoJob]

\* A send that never finds the buffer full.
HasRoomAlways == TRUE

\* The buffer of the jobs channel has room.
HasRoom == Len(jobs) < QueueCapacity

\* select, case jobs <- Job{childURL, job.Depth + 1} on the open channel.
EnqueueSend(w) ==
    /\ ~panicked
    /\ pc[w] = "enqueue"
    /\ ~closed
    /\ HasRoom
    /\ jobs' = Append(jobs, [URL |-> Head(links[w]), Depth |-> job[w].Depth + 1])
    /\ NextLink(w)
    /\ UNCHANGED <<closed, ctxDone, visited, tokens, pages, mon, cpc,
                   panicked, dropped, claims, durationCalls, cfg, recent,
                   limiter>>

\* select, case jobs <- ... on the closed channel: send on closed channel
\* panics, and the panic of a goroutine ends the process.
EnqueuePanic(w) ==
    /\ ~panicked
    /\ pc[w] = "enqueue"
    /\ closed
    /\ panicked' = TRUE
    /\ UNCHANGED <<jobs, closed, ctxDone, visited, tokens, pc, job, links,
                   pages, mon, cpc, dropped, claims, durationCalls, cfg,
                   recent, limiter>>

\* select, case <-ctx.Done(): return.
EnqueueCancelled(w) ==
    /\ ~panicked
    /\ pc[w] = "enqueue"
    /\ ctxDone
    /\ pc' = [pc EXCEPT ![w] = "exited"]
    /\ job' = [job EXCEPT ![w] = NoJob]
    /\ links' = [links EXCEPT ![w] = <<>>]
    /\ UNCHANGED <<jobs, closed, ctxDone, visited, tokens, pages, mon, cpc,
                   panicked, dropped, claims, durationCalls, cfg, recent,
                   limiter>>

\* select, default: no other case is ready (buffer full), the link is skipped.
EnqueueDrop(w) ==
    /\ ~panicked
    /\ pc[w] = "enqueue"
    /\ ~closed
    /\ ~HasRoom
    /\ ~ctxDone
    /\ NextLink(w)
    /\ dropped' = TRUE
    /\ UNCHANGED <<jobs, closed, ctxDone, visited, tokens, pages, mon, cpc,
                   panicked, claims, durationCalls, cfg, recent, limiter>>

\* ----------------------------------------------------------------- monitor
\* A counter that a changed size does not reset.
CountStableNoReset(currentVisited, prevVisited, stableCount) ==
    IF currentVisited = prevVisited THEN stableCount + 1 ELSE stableCount

\* stableCount after the if of a poll.
CountStable(currentVisited, prevVisited, stableCount) ==
    IF currentVisited = prevVisited THEN stableCount + 1 ELSE 0

\* The monitor's case <-ticker.C: one poll of len(c.visited).
MonitorPoll ==
    /\ ~panicked
    /\ mon.pc = "poll"
    /\ LET currentVisited == Cardinality(visited)
           stable == CountStable(currentVisited, mon.prevVisited, mon.stableCount)
       IN mon' = [pc |-> IF stable >= StableLimit THEN "signal" ELSE "poll",
                  prevVisited |-> currentVisited, stableCount |-> stable]
    /\ UNCHANGED <<jobs, closed, ctxDone, visited, tokens, pc, job, links,
                   pages, cpc, panicked, dropped, claims, durationCalls, cfg,
                   recent, limiter>>

\* The monitor's case <-ctx.Done(): it goes on to signal and return, and never
\* reads prevVisited and stableCount again.
MonitorCancelled ==
    /\ ~panicked
    /\ mon.pc = "poll"
    /\ ctxDone
    /\ mon' = [pc |-> "signal", prevVisited |-> 0, stableCount |-> 0]
    /\ UNCHANGED <<jobs, closed, ctxDone, visited, tokens, pc, job, links,
                   pages, cpc, panicked, dropped, claims, durationCalls, cfg,
                   recent, limiter>>

\* ------------------------------------------------------------------- Crawl
\* Crawl creates the jobs channel and starts the workers 0..c.workers-1 (here
\* 1..cfg.workers).
CrawlStart ==
    /\ ~panicked
    /\ cpc = "idle"
    /\ cpc' = "send"
    /\ pc' = [w \in Workers |-> IF w <= cfg.workers THEN "select" ELSE "off"]
    /\ UNCHANGED <<jobs, closed, ctxDone, visited, tokens, job, links, pages,
                   mon, panicked, dropped, claims, durationCalls, cfg,
                   recent, limiter>>

\* jobs <- Job{URL: startURL, Depth: 0}, then the monitor goroutine is started.
CrawlSendSeed ==
    /\ ~panicked
    /\ cpc = "send"
    /\ jobs' = Append(jobs, [URL |-> cfg.startURL, Depth |-> 0])
    /\ mon' = [mon EXCEPT !.pc = "poll"]
    /\ cpc' = "waitDone"
    /\ UNCHANGED <<closed, ctxDone, visited, tokens, pc, job, links, pages,
                   panicked, dropped, claims, durationCalls, cfg, recent,
                   limiter>>

\* <-jobsDone meets the monitor's jobsDone <- true (unbuffered channel), and
\* Crawl closes the jobs channel.
CrawlClose ==
    /\ ~panicked
    /\ cpc = "waitDone"
    /\ mon.pc = "signal"
    /\ mon' = [pc |-> "done", prevVisited |-> 0, stableCount |-> 0]
    /\ closed' = TRUE
    /\ cpc' = "wgWait"
    /\ UNCHANGED <<jobs, ctxDone, visited, tokens, pc, job, links, pages,
                   panicked, dropped, claims, durationCalls, cfg, recent,
                   limiter>>

\* A Crawl that does not wait for the workers.
CrawlFinishNoWait ==
    /\ ~panicked
    /\ cpc = "wgWait"
    /\ durationCalls' = durationCalls + 1
    /\ cpc' = "stopped"
    /\ UNCHANGED <<jobs, closed, ctxDone, visited, tokens, pc, job, links,
                   pages, mon, panicked, dropped, claims, cfg, recent,
                   limiter>>

\* wg.Wait() returns once every worker has run wg.Done; SetDuration is
\* called and Crawl returns.
CrawlFinish ==
    /\ ~panicked
    /\ cpc = "wgWait"
    /\ \A w \in Workers : w <= cfg.workers => pc[w] = "exited"
    /\ durationCalls' = durationCalls + 1
    /\ cpc' = "stopped"
    /\ UNCHANGED <<jobs, closed, ctxDone, visited, tokens, pc, job, links,
                   pages, mon, panicked, dropped, claims, cfg, recent,
                   limiter>>

\* cancel() is called (main, on SIGINT or SIGTERM, once New has returned and
\* the goroutine that runs Crawl is started).
Cancel ==
    /\ ~panicked
    /\ cpc # "new"
    /\ ~ctxDone
    /\ ctxDone' = TRUE
    /\ recent' = NoAttempts(Len(recent))
    /\ UNCHANGED <<jobs, closed, visited, tokens, pc, job, links, pages, mon,
                   cpc, panicked, dropped, claims, durationCalls, cfg,
                   limiter>>

WorkerStep(w) ==
    \/ WorkerCancelled(w)
    \/ WorkerRecv(w)
    \/ WorkerClosed(w)
    \/ WorkerCheck(w)
    \/ WorkerMark(w)
    \/ WaitToken(w)
    \/ WaitCancelled(w)
    \/ FetchFail(w)
    \/ FetchOK(w)
    \/ EnqueueSend(w)
    \/ EnqueuePanic(w)
    \/ EnqueueCancelled(w)
    \/ EnqueueDrop(w)

\* A step of the process; nothing runs once it has died of a panic (every
\* action requires ~panicked).
Next ==
    \/ Refill
    \/ \E w \in Workers : WorkerStep(w)
    \/ MonitorPoll
    \/ MonitorCancelled
    \/ CrawlStart
    \/ CrawlSendSeed
    \/ CrawlClose
    \/ CrawlFinish
    \/ Cancel

Spec == Init /\ [][Next]_vars

\* The state after crawler.New of a program started with -url ShortcutSeed.
ShortcutInit ==
    /\ jobs = <<>>
    /\ closed = FALSE
    /\ ctxDone = FALSE
    /\ visited = {}
    /\ tokens = Rate
    /\ pc = [w \in Workers |-> "off"]
    /\ job = [w \in Workers |-> NoJob]
    /\ links = [w \in Workers |-> <<>>]
    /\ pages = <<>>
    /\ mon = [pc |-> "off", prevVisited |-> 0, stableCount |-> 0]
    /\ cpc = "idle"
    /\ panicked = FALSE
    /\ dropped = FALSE
    /\ claims = 0
    /\ durationCalls = 0
    /\ cfg = [workers |-> NumWorkers, rateLimit |-> Rate, maxDepth |-> MaxDepth,
              startURL |-> ShortcutSeed]
    /\ limiter = NewLimiter
    /\ recent = NoAttempts(Rate)

ShortcutSpec == ShortcutInit /\ [][Next]_vars

\* ------------------------------------------------------------- second run
\* Crawl is called again on the crawler whose last Crawl has returned, with
\* the same context, not cancelled so far: a new jobs channel is made and the
\* workers are started. Crawl does not touch c.visited, c.results or the rate
\* limiter.
CrawlAgain ==
    /\ ~panicked
    /\ cpc = "stopped"
    /\ ~ctxDone
    /\ durationCalls < MaxRuns
    /\ jobs' = <<>>
    /\ closed' = FALSE
    /\ pc' = [w \in Workers |-> IF w <= cfg.workers THEN "select" ELSE "off"]
    /\ mon' = [pc |-> "off", prevVisited |-> 0, stableCount |-> 0]
    /\ cpc' = "send"
    /\ UNCHANGED <<ctxDone, visited, tokens, job, links, pages, panicked, dropped,
                   claims, durationCalls, cfg, limiter, recent>>

RerunNext ==
    \/ CrawlAgain
    \/ Next

\* A program that calls Crawl up to MaxRuns times on one crawler.
RerunSpec == Init /\ [][RerunNext]_vars

\* ---------------------------------------------------------------- shutdown
\* rl.ticker sends a tick on ticker.C; the refill goroutine has it to handle
\* (a tick that finds the last one not yet handled is dropped).
Tick ==
    /\ ~panicked
    /\ cpc # "new"
    /\ ~limiter.stopped
    /\ ~limiter.tick
    /\ limiter' = [limiter EXCEPT !.tick = TRUE]
    /\ UNCHANGED <<jobs, closed, ctxDone, visited, tokens, pc, job, links, pages,
                   mon, cpc, panicked, dropped, claims, durationCalls, cfg,
                   recent>>

\* The refill goroutine handles its tick: the select with the send
\* rl.tokens <- struct{}{} and the default case. On the closed channel the
\* send is chosen and panics.
RefillTick ==
    /\ ~panicked
    /\ limiter.tick
    /\ limiter' = [limiter EXCEPT !.tick = FALSE]
    /\ IF limiter.closed
       THEN /\ panicked' = TRUE
            /\ UNCHANGED <<tokens, recent>>
       ELSE /\ tokens' = RefillTokens(tokens)
            /\ recent' = IF ctxDone THEN recent ELSE Append(Tail(recent), 0)
            /\ panicked' = panicked
    /\ UNCHANGED <<jobs, closed, ctxDone, visited, pc, job, links, pages, mon,
                   cpc, dropped, claims, durationCalls, cfg>>

\* RateLimiter.Stop, rl.ticker.Stop(): no tick is sent from now on; a tick the
\* refill goroutine already has stays with it.
StopTicker ==
    /\ ~panicked
    /\ cpc # "new"
    /\ ~limiter.stopped
    /\ limiter' = [limiter EXCEPT !.stopped = TRUE]
    /\ UNCHANGED <<jobs, closed, ctxDone, visited, tokens, pc, job, links, pages,
                   mon, cpc, panicked, dropped, claims, durationCalls, cfg,
                   recent>>

\* RateLimiter.Stop, close(rl.tokens).
StopClose ==
    /\ ~panicked
    /\ limiter.stopped
    /\ ~limiter.closed
    /\ limiter' = [limiter EXCEPT !.closed = TRUE]
    /\ UNCHANGED <<jobs, closed, ctxDone, visited, tokens, pc, job, links, pages,
                   mon, cpc, panicked, dropped, claims, durationCalls, cfg,
                   recent>>

\* RateLimiter.Wait, case <-rl.tokens on the closed and drained channel: the
\* receive returns at once.
WaitClosed(w) ==
    /\ ~panicked
    /\ pc[w] = "wait"
    /\ limiter.closed
    /\ tokens = 0
    /\ pc' = [pc EXCEPT ![w] = "fetch"]
    /\ recent' = Attempted
    /\ UNCHANGED <<jobs, closed, ctxDone, visited, tokens, job, links, pages,
                   mon, cpc, panicked, dropped, claims, durationCalls, cfg,
                   limiter>>

\* The crawl with the ticks of the refill goroutine as steps of their own and
\* a goroutine that calls Stop on the crawler's RateLimiter.
StopNext ==
    \/ Tick
    \/ RefillTick
    \/ StopTicker
    \/ StopClose
    \/ \E w \in Workers : WaitClosed(w)
    \/ \E w \in Workers : WorkerStep(w)
    \/ MonitorPoll
    \/ MonitorCancelled
    \/ CrawlStart
    \/ CrawlSendSeed
    \/ CrawlClose
    \/ CrawlFinish
    \/ Cancel

StopSpec == Init /\ [][StopNext]_vars

\* ------------------------------------------------------------ construction
\* The values main may pass to crawler.New (flags -workers, -rate, -depth).
ConfigWorkers == {-1, 0, NumWorkers}
ConfigRates == {-1, 0, Rate}
ConfigDepths == {-1, 0, MaxDepth}

\* State before crawler.New is called: the flags are parsed, nothing is built.
ConfigInit ==
    /\ jobs = <<>>
    /\ closed = FALSE
    /\ ctxDone = FALSE
    /\ visited = {}
    /\ tokens = 0
    /\ pc = [w \in Workers |-> "off"]
    /\ job = [w \in Workers |-> NoJob]
    /\ links = [w \in Workers |-> <<>>]
    /\ pages = <<>>
    /\ mon = [pc |-> "off", prevVisited |-> 0, stableCount |-> 0]
    /\ cpc = "new"
    /\ panicked = FALSE
    /\ dropped = FALSE
    /\ claims = 0
    /\ durationCalls = 0
    /\ cfg \in [workers : ConfigWorkers, rateLimit : ConfigRates,
                maxDepth : ConfigDepths, startURL : {Seed}]
    /\ limiter = NewLimiter
    /\ recent = <<>>

\* crawler.New and the NewRateLimiter it calls: time.Second / 0 panics
\* (integer divide by zero), time.NewTicker panics on a negative interval;
\* otherwise the bucket is filled and the crawler is returned. Nothing looks
\* at workers or maxDepth.
New ==
    /\ ~panicked
    /\ cpc = "new"
    /\ IF cfg.rateLimit <= 0
       THEN /\ panicked' = TRUE
            /\ UNCHANGED <<tokens, cpc, dropped, claims, durationCalls,
                           recent, limiter>>
       ELSE /\ cpc' = "idle"
            /\ tokens' = cfg.rateLimit
            /\ recent' = NoAttempts(cfg.rateLimit)
            /\ panicked' = panicked
    /\ UNCHANGED <<jobs, closed, ctxDone, visited, pc, job, links, pages, mon,
                   dropped, claims, durationCalls, cfg, limiter>>

ConfigNext ==
    \/ New
    \/ Next

\* main with any flag values: crawler.New, then Crawl.
ConfigSpec == ConfigInit /\ [][ConfigNext]_vars

FairSpec ==
    /\ Spec
    /\ WF_vars(Refill)
    /\ \A w \in Workers : WF_vars(WorkerStep(w))
    /\ WF_vars(MonitorPoll \/ MonitorCancelled)
    /\ WF_vars(CrawlStart \/ CrawlSendSeed \/ CrawlClose \/ CrawlFinish)

\* ============================================================== properties
\* The worker has passed the visited check for the URL of its job.
PastCheck(w) == pc[w] \in {"mark", "wait", "fetch", "enqueue"}

\* C1 (Dedup): no two workers have both passed the visited check for the same
\* URL: of the workers that dequeue jobs carrying one URL, only one goes on to
\* fetch it.
C1_Dedup ==
    \A w1 \in Workers : \A w2 \in Workers :
        (w1 # w2 /\ PastCheck(w1) /\ PastCheck(w2)) => job[w1].URL # job[w2].URL

\* C2 (Mark before fetch): the URL of a worker that waits for the rate limiter
\* or performs the fetch is in the visited set.
C2_MarkBeforeFetch ==
    \A w \in Workers : pc[w] \in {"wait", "fetch"} => job[w].URL \in visited

C2_Witness ==
    \E w \in Workers : pc[w] = "fetch" /\ job[w].Depth = 1 /\ job[w].URL \in visited

\* The worker is at the select for a link with the buffer full, the channel open
\* and the run not cancelled.
AtFullQueue(w) ==
    /\ pc[w] = "enqueue"
    /\ ~HasRoom
    /\ ~closed
    /\ ~ctxDone
    /\ ~panicked

\* C3 (Backpressure): the queue never holds more than QueueCapacity jobs; a
\* worker that tries to enqueue a link into the full queue does not block: it
\* can take the default case of its select, which leaves the queue as it is
\* and moves the worker past the link, and it cannot send.
C3_Backpressure ==
    /\ Len(jobs) <= QueueCapacity
    /\ \A w \in Workers :
          AtFullQueue(w) =>
             /\ ENABLED (EnqueueDrop(w) /\ jobs' = jobs /\ links'[w] = Tail(links[w]))
             /\ ~ENABLED EnqueueSend(w)

C3_Witness ==
    \E w \in Workers : AtFullQueue(w) /\ Len(jobs) = QueueCapacity

\* The jobs in the queue and the jobs the workers hold.
HeldJobs == {job[w] : w \in {v \in Workers : pc[v] \notin {"off", "select", "exited"}}}
QueuedJobs == {jobs[i] : i \in 1..Len(jobs)}

\* C4 (Depth bound): every job in the queue or held by a worker has a depth in
\* 0..MaxDepth (so no page is recorded for a deeper job), and a worker that
\* ranges over the links of a page holds a job of depth below MaxDepth (the
\* links of a page at depth MaxDepth are not enqueued).
C4_DepthBound ==
    /\ \A j \in QueuedJobs \cup HeldJobs : j.Depth \in 0..MaxDepth
    /\ \A w \in Workers : pc[w] = "enqueue" => job[w].Depth < MaxDepth

\* A page at depth MaxDepth with an in-scope link has been fetched.
C4_Witness ==
    /\ \E w \in Workers : pc[w] = "fetch" /\ job[w].Depth = MaxDepth
    /\ \E w \in Workers : pc[w] = "select"
    /\ \E i \in 1..Len(pages) : pages[i].Success /\ Parse(pages[i].URL).Path = "/b"

\* Crawl has returned: the queue is closed and every worker has exited.
Stopped == cpc = "stopped"

\* C5 (Termination): a run that is never cancelled eventually reaches STOPPED,
\* under fair scheduling of the workers, the refill goroutine, the monitor and
\* Crawl.
C5_Termination == ([]~ctxDone) => <>Stopped

\* C6 (Cancellation): once the cancellation signal has fired the run
\* eventually reaches STOPPED, and no page is appended to the sink after
\* STOPPED.
C6_Cancellation ==
    /\ ctxDone ~> Stopped
    /\ [][Stopped => pages' = pages]_vars

\* The URL has the seed's host and scheme http or https.
InSeedScope(url) ==
    /\ Parse(url).ok
    /\ Parse(url).Host = Parse(Seed).Host
    /\ Parse(url).Scheme \in {"http", "https"}

\* The URLs a job can carry that are in the seed's scope.
SeedScope == {url \in JobURLs : InSeedScope(url)}

\* C7 (Scope): every job in the queue or held by a worker has the seed's host
\* and scheme http or https, and the only child job of the seed page (hrefs
\* /a, http://other.test/x, #frag, javascript:void(0)) is http://ex.test/a.
C7_Scope ==
    \A j \in QueuedJobs \cup HeldJobs :
        /\ j.URL \in SeedScope
        /\ j.Depth = 1 => j.URL = Str("http", "ex.test", "/a", "")

\* The seed page has been processed to its last link and the queue holds its
\* one child job.
C7_Witness ==
    /\ jobs = <<[URL |-> Str("http", "ex.test", "/a", ""), Depth |-> 1]>>
    /\ pages = <<[URL |-> Seed, Success |-> TRUE]>>
    /\ \A w \in Workers : pc[w] = "select"

\* The two URL strings differ at most in their fragment.
SameUpToFragment(u, v) ==
    [Parse(u) EXCEPT !.Fragment = ""] = [Parse(v) EXCEPT !.Fragment = ""]

\* C8 (Fragment normalization): URLs that differ only in their fragment share
\* one visited-set key, so the visited set never holds two of them.
C8_FragmentNormalization ==
    \A u \in visited : \A v \in visited : SameUpToFragment(u, v) => u = v

\* C9 (Acquire): a worker leaves Wait only by removing one token from the
\* bucket or, with the cancellation signal fired, without touching the bucket;
\* with the bucket empty and the run not cancelled it stays in Wait.
C9_Acquire ==
    [][\A w \in Workers :
         (pc[w] = "wait" /\ pc'[w] # "wait") =>
            \/ tokens > 0 /\ tokens' = tokens - 1
            \/ ctxDone /\ tokens' = tokens]_vars

\* One worker holds the only token and another is blocked in Wait.
C9_Witness ==
    \E w1 \in Workers : \E w2 \in Workers :
        pc[w1] = "fetch" /\ pc[w2] = "wait" /\ tokens = 0 /\ ~ctxDone

\* C10 (Token bucket bounds): the bucket starts with Rate tokens, always holds
\* between 0 and Rate tokens, grows only by one token at a time and only when
\* it is below Rate: a refill of the full bucket leaves it as it is.
C10_TokenBucket ==
    /\ tokens = Rate
    /\ [][/\ tokens' \in 0..Rate
          /\ tokens' > tokens => (tokens < Rate /\ tokens' = tokens + 1)
          /\ tokens = Rate => tokens' <= tokens]_vars

\* A token was taken without cancellation and the bucket is full again.
C10_Witness ==
    \E w \in Workers : pc[w] = "fetch" /\ ~ctxDone /\ tokens = Rate

RECURSIVE Sum(_)
Sum(s) == IF s = <<>> THEN 0 ELSE Head(s) + Sum(Tail(s))

\* C11 (Rate bound): while the run is not cancelled, a worker starts a fetch
\* attempt only in a step that removes one token from the bucket, and the
\* fetch attempts started in any Rate consecutive refill intervals number at
\* most Rate plus the capacity of the bucket (Rate).
C11_RateBound ==
    /\ Sum(recent) <= Rate + Rate
    /\ [][/\ Sum(recent') <= Rate + Rate
          /\ \A w \in Workers :
                (~ctxDone /\ pc[w] # "fetch" /\ pc'[w] = "fetch") =>
                    (tokens > 0 /\ tokens' = tokens - 1)]_vars

\* The uncancelled run has started as many fetch attempts in the current
\* interval as the bucket holds tokens, and a worker waits for the next one.
C11_Witness ==
    /\ ~ctxDone
    /\ recent[Len(recent)] = Rate
    /\ tokens = 0
    /\ \E w \in Workers : pc[w] = "wait"

\* The configuration has a value the specification calls invalid (the queue
\* capacity is no argument of New).
Invalid(c) == c.workers <= 0 \/ c.rateLimit <= 0 \/ c.maxDepth < 0

\* C12 (Configuration validation): with an invalid configuration the program
\* never gets past construction: no worker is started, no job is enqueued and
\* no page is recorded.
C12_ConfigValidation ==
    Invalid(cfg) =>
        /\ cpc = "new"
        /\ \A w \in Workers : pc[w] = "off"
        /\ jobs = <<>>
        /\ pages = <<>>

\* Worker w ends a fetch in this step without recording a successful page.
FailedFetchStep(w) ==
    /\ pc[w] = "fetch"
    /\ pc'[w] # "fetch"
    /\ pages' # Append(pages, [URL |-> job[w].URL, Success |-> TRUE])

\* C13 (Per-job errors are non-fatal): a fetch that fails appends exactly one
\* PageResult with success = false for the job's URL, enqueues nothing, and
\* the worker returns to dequeueing; no worker exits, the queue stays open,
\* Crawl stays where it is and the process lives.
C13_ErrorsNonFatal ==
    [][\A w \in Workers :
         FailedFetchStep(w) =>
            /\ pages' = Append(pages, [URL |-> job[w].URL, Success |-> FALSE])
            /\ jobs' = jobs
            /\ pc'[w] = "select"
            /\ \A v \in Workers : v # w => pc'[v] = pc[v]
            /\ closed' = closed
            /\ cpc' = cpc
            /\ ~panicked']_vars

\* After a failed fetch of a child page the run is still RUNNING with every
\* worker back at its dequeue.
C13_Witness ==
    /\ Len(pages) >= 2
    /\ ~pages[Len(pages)].Success
    /\ \A w \in Workers : pc[w] = "select"
    /\ cpc = "waitDone"
    /\ ~closed
    /\ ~ctxDone
    /\ ~panicked

\* C14 (start blocks until STOPPED): when Crawl has returned the queue is
\* closed and every worker has exited; SetDuration has been called once when
\* Crawl has returned and not at all before.
C14_BlocksUntilStopped ==
    /\ Stopped => (closed /\ \A w \in Workers : pc[w] = "exited")
    /\ durationCalls = IF Stopped THEN 1 ELSE 0

C14_Witness ==
    /\ Stopped
    /\ durationCalls = 1
    /\ Len(pages) >= 2
    /\ ~ctxDone

\* C15 (No send after close): no worker sends into the closed queue. A send
\* on the closed channel is the one step of Crawl and its goroutines that
\* panics.
C15_NoSendAfterClose == ~panicked

\* C16 (No new work after cancellation): once the cancellation signal has
\* fired no URL is added to the visited set (a job dequeued then is not
\* claimed) and no worker starts a fetch attempt.
C16_NoNewWorkAfterCancel ==
    [][ctxDone =>
          /\ visited' = visited
          /\ \A w \in Workers : pc'[w] = "fetch" => pc[w] = "fetch"]_vars

\* The URLs within n links of the seed (pages at depth below the maximum
\* have their links followed).
RECURSIVE Within(_)
Within(n) ==
    IF n <= 0 THEN {Seed}
    ELSE LET near == Within(n - 1)
         IN near \cup UNION {{ChildrenOf[u][i] : i \in 1..Len(ChildrenOf[u])} : u \in near}

Recorded == {pages[i].URL : i \in 1..Len(pages)}

\* A run that stopped without cancellation, dropped link or failed fetch has
\* recorded every URL within MaxDepth links of the seed.
Complete ==
    (Stopped /\ ~ctxDone /\ ~dropped /\ \A i \in 1..Len(pages) : pages[i].Success)
        => Within(MaxDepth) \subseteq Recorded

\* C17 (Crawl completeness at convergence): a run that the detector stopped
\* is complete, and the queue is not closed on the detector's signal while a
\* worker has claimed a URL and has not finished with the links of its page.
C17_Completeness ==
    /\ Complete
    /\ [][/\ Complete'
          /\ (~closed /\ closed' /\ ~ctxDone) =>
                \A w \in Workers : pc[w] \notin {"wait", "fetch", "enqueue"}]_vars

\* The monitor takes a poll in this step of the uncancelled run.
PollStep == mon.pc = "poll" /\ mon' # mon /\ ~ctxDone

\* C18 (Stability detector): a poll that sees the size of the previous poll
\* adds one to the counter, a poll that sees another size sets it to 0; the
\* monitor signals at the poll that brings the counter to 3 and at no other,
\* and after it has signalled it does not poll again.
C18_StabilityDetector ==
    [][/\ PollStep =>
            LET size == Cardinality(visited) IN
            /\ mon'.prevVisited = size
            /\ size # mon.prevVisited => mon'.stableCount = 0
            /\ size = mon.prevVisited => mon'.stableCount = mon.stableCount + 1
            /\ mon'.pc = "signal" <=> mon'.stableCount = 3
            /\ mon'.pc \in {"signal", "poll"}
       /\ mon.pc \in {"signal", "done"} => mon'.pc \in {"signal", "done"}]_vars

\* The monitor signals at a poll that follows a reset of the counter.
C18_Witness ==
    /\ mon.pc = "signal"
    /\ mon.stableCount = 3
    /\ mon.prevVisited >= 2
    /\ ~ctxDone

\* C19 (Drain on convergence): a run that stopped without cancellation left
\* no job in the queue; the queue changes only by a send at its end or by a
\* dequeue that hands its first job to exactly one worker, and that worker
\* then claims the job's URL or skips it as already visited.
C19_Drain ==
    /\ (Stopped /\ ~ctxDone) => jobs = <<>>
    /\ [][/\ (Stopped' /\ ~ctxDone') => jobs' = <<>>
          /\ jobs' # jobs =>
                \/ \E j \in [URL : JobURLs, Depth : 0..MaxDepth] : jobs' = Append(jobs, j)
                \/ /\ jobs # <<>>
                   /\ jobs' = Tail(jobs)
                   /\ \E w \in Workers :
                         /\ pc[w] = "select"
                         /\ pc'[w] = "check"
                         /\ job'[w] = Head(jobs)
                         /\ \A v \in Workers : v # w => (pc'[v] = pc[v] /\ job'[v] = job[v])
          /\ \A w \in Workers :
                (pc[w] = "check" /\ pc'[w] # "check") =>
                    \/ pc'[w] = "mark" /\ job'[w] = job[w]
                    \/ pc'[w] = "select" /\ job[w].URL \in visited]_vars

\* The detector's run has stopped with all four pages of the site recorded.
C19_Witness ==
    /\ Stopped
    /\ ~ctxDone
    /\ jobs = <<>>
    /\ Len(pages) >= 4

\* The workers between their claim and the append of its PageResult.
InFlight == {w \in Workers : pc[w] \in {"wait", "fetch"}}

\* Claims are PageResults or still in flight; at STOPPED every claim has its
\* PageResult and every visited URL is recorded.
ClaimsRecorded ==
    /\ claims = Len(pages) + Cardinality(InFlight)
    /\ Stopped => (Len(pages) = claims /\ visited \subseteq Recorded)

\* C20 (One PageResult per fetch attempt): a worker leaves its fetch only by
\* appending one PageResult for the job's URL, pages are appended in no other
\* step, and so every claim is recorded or in flight, whether or not the run is
\* cancelled in between.
C20_OnePagePerAttempt ==
    /\ ClaimsRecorded
    /\ [][/\ ClaimsRecorded'
          /\ \A w \in Workers :
                (pc[w] = "fetch" /\ pc'[w] # "fetch") =>
                    \E s \in BOOLEAN : pages' = Append(pages, [URL |-> job[w].URL, Success |-> s])
          /\ pages' # pages => \E w \in Workers : pc[w] = "fetch" /\ pc'[w] # "fetch"]_vars

\* A cancelled run has stopped with a page whose fetch ended after the
\* cancellation could fire.
C20_Witness ==
    /\ Stopped
    /\ ctxDone
    /\ claims >= 2
    /\ Len(pages) = claims

\* The URLs within n links of the start URL s.
RECURSIVE ReachWithin(_, _)
ReachWithin(s, n) ==
    IF n <= 0 THEN {s}
    ELSE LET near == ReachWithin(s, n - 1)
         IN near \cup UNION {{ChildrenOf[u][i] : i \in 1..Len(ChildrenOf[u])} : u \in near}

\* The shortest link distance of url from ShortcutSeed (MaxDepth + 1 when it
\* is farther than MaxDepth).
DistanceOf ==
    [url \in JobURLs |->
        IF \E n \in 0..MaxDepth : url \in ReachWithin(ShortcutSeed, n)
        THEN CHOOSE n \in 0..MaxDepth :
                /\ url \in ReachWithin(ShortcutSeed, n)
                /\ \A m \in 0..(n - 1) : url \notin ReachWithin(ShortcutSeed, m)
        ELSE MaxDepth + 1]

\* C21 (Breadth-first depth assignment): as long as no link was dropped, the
\* worker that claims a URL (adds it to the visited set) holds a job whose
\* depth is the shortest link distance of the URL from the start URL.
C21_BreadthFirstDepth ==
    [][\A w \in Workers :
         (pc[w] = "mark" /\ pc'[w] = "wait" /\ visited' # visited /\ ~dropped) =>
            job[w].Depth = DistanceOf[job[w].URL]]_vars

\* C22 (Rate limiter shutdown): once Stop has closed the bucket the refill
\* goroutine handles no tick (it neither adds nor tries to add a token), and
\* a worker that waits in Wait can return.
C22_Shutdown ==
    [][/\ limiter.closed => (limiter.tick => limiter'.tick)
       /\ \A w \in Workers :
             (limiter.closed /\ pc[w] = "wait" /\ ~panicked) =>
                 ENABLED (WaitToken(w) \/ WaitClosed(w))]_vars

\* C23 (Visited set per run): a run starts with the empty visited set, the
\* second run on a crawler too, and within a run the visited set only grows.
C23_VisitedPerRun ==
    [][/\ (cpc # "send" /\ cpc' = "send") => visited' = {}
       /\ ~(cpc # "send" /\ cpc' = "send") => visited \subseteq visited']_vars

====
